---- MODULE Spec2Model ----
(***************************************************************************)
(* Orchestrated SAGA for order processing: the orchestrator, its event     *)
(* log (table saga_events), the Kafka topics that carry the ingress        *)
(* orders, the commands and the replies, and the four participants         *)
(* (pedidos, estoque, pagamentos, entregas) with their local tables.       *)
(*                                                                         *)
(* A topic is an append-only log read in offset order by one consumer      *)
(* group; pos[t] is the number of messages of topic t already consumed.    *)
(* One step of the model is one iteration of a ConsumeClaim loop: the      *)
(* handler of one message, with every write and publish it performs.       *)
(***************************************************************************)
EXTENDS Integers, Sequences, FiniteSets, TLC

\* ------------------------------------------------------------------ bounds
MaxSagas        == 1  \* orders published on the ingress topic
MaxEvents       == 7  \* rows of saga_events after which the orchestrator is no longer scheduled
MaxConcurrentEvents == 4  \* the same, for the concurrent claim goroutines
MaxCommands     == 3  \* commands a participant taken alone is sent
MaxParticipantSagas == 2  \* sagas those commands belong to
MaxOrders       == 2  \* orders on the ingress topic when it has several partitions
MaxDisturbances == 1   \* database or broker calls that return an error, redeliveries, foreign messages

\* ------------------------------------------------------------------ states
StatePending           == "PENDING"
StateOrderValidated    == "ORDER_VALIDATED"
StateStockReserved     == "STOCK_RESERVED"
StatePaymentProcessed  == "PAYMENT_PROCESSED"
StateDeliveryScheduled == "DELIVERY_SCHEDULED"
StateCompleted         == "COMPLETED"
StateFailed            == "FAILED"
StateCompensating      == "COMPENSATING"

\* ------------------------------------------------------------------ topics
TopicIngress   == "pedido-saga-pedido-processar"
TopicProcessed == "pedido-saga-pedido-processado"
PedidosCommands    == "pedidos-commands"
EstoqueCommands    == "estoque-commands"
PagamentosCommands == "pagamentos-commands"
EntregasCommands   == "entregas-commands"
PedidosReply    == "pedidos-reply"
EstoqueReply    == "estoque-reply"
PagamentosReply == "pagamentos-reply"
EntregasReply   == "entregas-reply"

CommandTopics == {PedidosCommands, EstoqueCommands, PagamentosCommands, EntregasCommands}
ReplyTopics   == {PedidosReply, EstoqueReply, PagamentosReply, EntregasReply}
\* the topics the orchestrator subscribes to
consumeMessages == {TopicIngress} \cup ReplyTopics
Topics == consumeMessages \cup CommandTopics

VARIABLES
  ingress,             \* messages of the ingress topic, in offset order
  cmds,                \* every command published, in publication order (all command topics)
  replies,             \* every reply published, in publication order (all reply topics)
  processed,           \* messages of the topic pedido-saga-pedido-processado
  pos,                 \* pos[t]: messages of topic t consumed so far
  saga_events,         \* table saga_events of the orchestrator, in insertion (id) order
  orders,              \* table orders of the pedidos service
  stock_reservations,  \* table stock_reservations of the estoque service
  payments,            \* table payments of the pagamentos service
  deliveries,          \* table deliveries of the entregas service
  now,                 \* CURRENT_TIMESTAMP of the orchestrator's database
  faults,              \* calls that returned an error so far
  redelivered,         \* redeliveries so far
  started,             \* started[n]: the ingress offset of the order that became the n-th saga (history)
  last,                \* the handler invocation that ran last (history)
  running,             \* running[t]: where the ConsumeClaim goroutine of topic t is in its handler
  cause                \* cause[i]: the receipt number of the message whose handler saved row i (history)

vars == <<ingress, cmds, replies, processed, pos, saga_events, orders,
          stock_reservations, payments, deliveries, now, faults, redelivered, started,
          last, running, cause>>

\* ---------------------------------------------------- payloads (JSON objects)
\* map[string]interface{}: a function from the keys present to their values
EmptyPayload == [k \in {} |-> ""]
Has(p, k) == k \in DOMAIN p
\* a Put that stores nothing
Put_Dropped(p, k, v) == p
Put(p, k, v) == [x \in (DOMAIN p) \cup {k} |-> IF x = k THEN v ELSE p[x]]

getStringFromPayload(payload, key, defaultValue) ==
  IF Has(payload, key) THEN payload[key] ELSE defaultValue

\* the orders the simulator publishes: with and without an order_id
FullOrder ==
  [order_id |-> "ORD-1", customer_id |-> "CUST-1", product_id |-> "P-1",
   quantity |-> "2", total_amount |-> "199.98", address |-> "A1"]
OrderWithoutId ==
  [customer_id |-> "CUST-1", product_id |-> "P-1",
   quantity |-> "2", total_amount |-> "199.98", address |-> "A1"]
IngressPayloads == {FullOrder, OrderWithoutId}
\* bytes on the ingress topic that are no JSON object, and json.Unmarshal of an
\* ingress message into map[string]interface{}: TRUE when it returns no error
MalformedOrder == [raw |-> "{"]
UnmarshalOrder(data) == "raw" \notin DOMAIN data

\* sarama.ProducerMessage{Topic, Value}: the value is the JSON of the record, and
\* no Key is set (key "": the producer sends a nil key)
ProducerMessage(value) == value @@ [key |-> "", json |-> TRUE]

\* an Unmarshal whose error is ignored
Unmarshal_IgnoreError(message) == TRUE
\* json.Unmarshal of a message of a reply topic: TRUE when it returns no error
Unmarshal(message) == message.json

\* generateID(): a fresh identifier; n counts the identifiers of that kind so far
generateID(kind, n) == kind \o "-" \o ToString(n + 1)

\* ------------------------------------------------------------ topic access
OfTopic(log, t) == SelectSeq(log, LAMBDA m : m.topic = t)
Log(t) == IF t = TopicIngress THEN ingress
          ELSE IF t \in CommandTopics THEN OfTopic(cmds, t)
          ELSE OfTopic(replies, t)
HasMessage(t) == pos[t] < Len(Log(t))
Message(t) == Log(t)[pos[t] + 1]
InFlight == {t \in Topics : HasMessage(t)}

\* what the history variable records of a handler invocation: the handler, the
\* topic and saga of its message, the reply's success flag, the state
\* getCurrentState returned, and, as they were before it, the lengths of
\* saga_events, cmds and processed, the topic's offset and the count of errors
Op(op, topic, saga, success, cur) ==
  [op |-> op, topic |-> topic, saga |-> saga, success |-> success, cur |-> cur,
   ev0 |-> Len(saga_events), cmd0 |-> Len(cmds), out0 |-> Len(processed),
   pos0 |-> pos[topic], faults0 |-> faults]
NoOp == [op |-> "init", topic |-> "", saga |-> "", success |-> FALSE, cur |-> "",
         ev0 |-> 0, cmd0 |-> 0, out0 |-> 0, pos0 |-> 0, faults0 |-> 0]

\* a ConsumeClaim goroutine between two messages
Idle == [pc |-> "idle", saga |-> "", cur |-> "", ticket |-> 0]

Init ==
  /\ ingress = <<>>
  /\ cmds = <<>>
  /\ replies = <<>>
  /\ processed = <<>>
  /\ pos = [t \in Topics |-> 0]
  /\ saga_events = <<>>
  /\ orders = <<>>
  /\ stock_reservations = <<>>
  /\ payments = <<>>
  /\ deliveries = <<>>
  /\ now = 0
  /\ faults = 0
  /\ redelivered = 0
  /\ started = <<>>
  /\ last = NoOp
  /\ running = [t \in consumeMessages |-> Idle]
  /\ cause = <<>>

\* a saga id no saga has: generateID never returns it
UnknownSaga == "SAGA-0"
\* a message of a reply topic that no participant published: one json.Unmarshal
\* rejects, or the reply of a saga that has no events
IsForeign(m) == ~m.json \/ m.saga_id = UnknownSaga
Disturbances == faults + redelivered + Len(SelectSeq(replies, IsForeign))
                + Len(SelectSeq(ingress, LAMBDA d : ~UnmarshalOrder(d)))

\* faults a handler invocation may run into: any set of its calls, within the budget
FaultSets(points) == {F \in SUBSET points : Cardinality(F) <= MaxDisturbances - Disturbances}

\* ------------------------------------------------------------- orchestrator
\* a saveEvent that keeps one row per saga: it overwrites the saga's latest row
saveEvent_Upsert(events, event, at) ==
  LET row == [saga_id |-> event.saga_id, order_id |-> event.order_id,
              state |-> event.state, data |-> event.data,
              error |-> event.error, created_at |-> at]
      own == {i \in 1..Len(events) : events[i].saga_id = event.saga_id}
  IN IF own = {} THEN Append(events, row)
     ELSE [events EXCEPT ![CHOOSE i \in own : \A j \in own : j <= i] = row]

\* saveEvent: INSERT INTO saga_events; created_at defaults to CURRENT_TIMESTAMP
saveEvent(events, event, at) ==
  Append(events, [saga_id |-> event.saga_id, order_id |-> event.order_id,
                  state |-> event.state, data |-> event.data,
                  error |-> event.error, created_at |-> at])

\* sendCommand: publish cmd on topic; the message carries no key
sendCommand(log, topic, cmd) ==
  Append(log, ProducerMessage(
                [topic |-> topic, command_id |-> generateID("CMD", Len(log)),
                 saga_id |-> cmd.saga_id, order_id |-> cmd.order_id,
                 command_type |-> cmd.command_type, payload |-> cmd.payload]))

\* sendCompensation: a command with no order id and no payload
sendCompensation(log, topic, sagaID, commandType) ==
  sendCommand(log, topic, [saga_id |-> sagaID, order_id |-> "",
                           command_type |-> commandType, payload |-> EmptyPayload])

EventsOf(sagaID) == SelectSeq(saga_events, LAMBDA e : e.saga_id = sagaID)

\* a getCurrentState whose error is ignored: the caller goes on with the
\* StatePending it returns beside sql.ErrNoRows
getCurrentState_DefaultPending(sagaID) ==
  IF EventsOf(sagaID) = <<>> THEN {StatePending}
  ELSE {EventsOf(sagaID)[Len(EventsOf(sagaID))].state}

\* getCurrentState: SELECT state ... WHERE saga_id = $1 ORDER BY created_at DESC LIMIT 1.
\* The set of rows the query may return: those of the saga with the greatest
\* created_at (one of them, unspecified, when several share it); empty: sql.ErrNoRows.
getCurrentState(sagaID) ==
  LET mine == EventsOf(sagaID)
      idx  == 1..Len(mine)
  IN {mine[i].state : i \in {j \in idx : \A k \in idx : mine[k].created_at <= mine[j].created_at}}

\* getOrderID: reply.Data["order_id"] when it is there, "" otherwise
getOrderID(reply) == IF Has(reply.data, "order_id") THEN reply.data["order_id"] ELSE ""

\* a startNewSaga that publishes VALIDATE_ORDER whether or not the PENDING
\* event was saved
startNewSaga_SendAnyway(data, F) ==
  LET n         == Len(started)
      sagaID    == generateID("SAGA", n)
      hasId     == Has(data, "order_id")
      orderID   == IF hasId THEN data["order_id"] ELSE generateID("ORD", n)
      orderData == IF hasId THEN data ELSE Put(data, "order_id", orderID)
  IN /\ last' = Op("startNewSaga", TopicIngress, sagaID, TRUE, "")
     /\ started' = Append(started, pos[TopicIngress] + 1)
     /\ IF "save" \in F
        THEN UNCHANGED <<saga_events, now>>
        ELSE /\ saga_events' = saveEvent(saga_events,
                                 [saga_id |-> sagaID, order_id |-> orderID,
                                  state |-> StatePending, data |-> orderData,
                                  error |-> ""], now + 1)
             /\ now' = now + 1
     /\ cmds' = sendCommand(cmds, PedidosCommands,
                            [saga_id |-> sagaID, order_id |-> orderID,
                             command_type |-> "VALIDATE_ORDER", payload |-> orderData])
     /\ UNCHANGED processed

\* startNewSaga with the reading n of the clock that generateID() turns into the
\* saga id. Bytes json.Unmarshal rejects are returned as an error at once.
startNewSagaAt(data, F, n) ==
  IF ~UnmarshalOrder(data)
  THEN /\ last' = Op("rejectOrder", TopicIngress, "", FALSE, "")
       /\ UNCHANGED <<started, saga_events, now, cmds, processed>>
  ELSE
  LET sagaID    == generateID("SAGA", n)
      hasId     == Has(data, "order_id")
      orderID   == IF hasId THEN data["order_id"] ELSE generateID("ORD", n)
      orderData == IF hasId THEN data ELSE Put(data, "order_id", orderID)
      event     == [saga_id |-> sagaID, order_id |-> orderID, state |-> StatePending,
                    data |-> orderData, error |-> ""]
      cmd       == [saga_id |-> sagaID, order_id |-> orderID,
                    command_type |-> "VALIDATE_ORDER", payload |-> orderData]
  IN /\ last' = Op("startNewSaga", TopicIngress, sagaID, TRUE, "")
     /\ started' = Append(started, pos[TopicIngress] + 1)
     /\ IF "save" \in F
        THEN UNCHANGED <<saga_events, now, cmds>>
        ELSE /\ saga_events' = saveEvent(saga_events, event, now + 1)
             /\ now' = now + 1
             /\ cmds' = IF "send" \in F THEN cmds
                        ELSE sendCommand(cmds, PedidosCommands, cmd)
     /\ UNCHANGED processed

\* startNewSaga: the handler of a message of the ingress topic. The messages of
\* the topic are handled one after the other by one goroutine, and each reading of
\* time.Now().UnixNano() is later than the one before.
startNewSaga(data, F) == startNewSagaAt(data, F, Len(started))

\* the forward step a success reply on a topic leads to
NextState(topic) ==
  CASE topic = PedidosReply    -> StateOrderValidated
    [] topic = EstoqueReply    -> StateStockReserved
    [] topic = PagamentosReply -> StatePaymentProcessed
    [] topic = EntregasReply   -> StateCompleted

NextCommand(topic) ==
  CASE topic = PedidosReply    -> [topic |-> EstoqueCommands,    type |-> "RESERVE_STOCK"]
    [] topic = EstoqueReply    -> [topic |-> PagamentosCommands, type |-> "PROCESS_PAYMENT"]
    [] topic = PagamentosReply -> [topic |-> EntregasCommands,   type |-> "SCHEDULE_DELIVERY"]

\* the compensations startCompensation's switch reaches from a state, in the order it sends them
Compensations(currentState) ==
  LET pay   == [topic |-> PagamentosCommands, type |-> "CANCEL_PAYMENT"]
      stock == [topic |-> EstoqueCommands,    type |-> "RELEASE_STOCK"]
      order == [topic |-> PedidosCommands,    type |-> "CANCEL_ORDER"]
  IN CASE currentState = StatePaymentProcessed -> <<pay, stock, order>>
       [] currentState = StateStockReserved    -> <<stock, order>>
       [] currentState = StateOrderValidated   -> <<order>>
       [] OTHER                                -> <<>>

\* a SendCompensations that addresses the compensations to the saga whose event
\* is the first of the log
RECURSIVE SendCompensations_FirstSaga(_, _, _, _)
SendCompensations_FirstSaga(log, plan, sagaID, F) ==
  IF plan = <<>> THEN log
  ELSE SendCompensations_FirstSaga(
         sendCompensation(log, Head(plan).topic, saga_events[1].saga_id, Head(plan).type),
         Tail(plan), sagaID, F)

RECURSIVE SendCompensations(_, _, _, _)
SendCompensations(log, plan, sagaID, F) ==
  IF plan = <<>> THEN log
  ELSE LET c == Head(plan)
       IN SendCompensations(
            IF ("send:" \o c.type) \in F THEN log   \* the error of sendCompensation is dropped
            ELSE sendCompensation(log, c.topic, sagaID, c.type),
            Tail(plan), sagaID, F)

\* startCompensation: COMPENSATING, the compensations, FAILED. tie: the two
\* inserts get the same CURRENT_TIMESTAMP.
startCompensation(sagaID, currentState, errorMsg, F, tie) ==
  LET t1   == now + 1
      t2   == IF tie THEN t1 ELSE t1 + 1
      ev1  == [saga_id |-> sagaID, order_id |-> "", state |-> StateCompensating,
               data |-> EmptyPayload, error |-> errorMsg]
      ev2  == [saga_id |-> sagaID, order_id |-> "", state |-> StateFailed,
               data |-> EmptyPayload, error |-> errorMsg]
      log1 == saveEvent(saga_events, ev1, t1)
  IN IF "save1" \in F
     THEN UNCHANGED <<saga_events, now, cmds>>
     ELSE /\ cmds' = SendCompensations(cmds, Compensations(currentState), sagaID, F)
          /\ IF "save2" \in F
             THEN saga_events' = log1 /\ now' = t1
             ELSE saga_events' = saveEvent(log1, ev2, t2) /\ now' = t2

\* publishOrderProcessed: the terminal event on pedido-saga-pedido-processado
publishOrderProcessed(sagaID, data) ==
  Append(processed, ProducerMessage(
                      [topic |-> TopicProcessed, saga_id |-> sagaID,
                       order_id |-> IF Has(data, "order_id") THEN data["order_id"] ELSE "",
                       status |-> "COMPLETED", data |-> data]))

\* a processReply that saves the event before it publishes the next command, so
\* that the event stays when the publish fails
processReply_SaveFirst(topic, reply, F, tie) ==
  LET states == getCurrentState(reply.saga_id)
  IN IF "query" \in F \/ states = {}
     THEN /\ last' = Op("processReply", topic, reply.saga_id, reply.success, "")
          /\ UNCHANGED <<saga_events, now, cmds, processed>>
     ELSE \E currentState \in states :
          /\ last' = Op("processReply", topic, reply.saga_id, reply.success, currentState)
          /\ IF ~reply.success
             THEN /\ startCompensation(reply.saga_id, currentState, reply.message, F, tie)
                  /\ UNCHANGED processed
             ELSE LET orderID == getOrderID(reply)
                      event   == [saga_id |-> reply.saga_id, order_id |-> orderID,
                                  state |-> NextState(topic), data |-> reply.data,
                                  error |-> ""]
                  IN /\ IF "save" \in F
                        THEN UNCHANGED <<saga_events, now>>
                        ELSE /\ saga_events' = saveEvent(saga_events, event, now + 1)
                             /\ now' = now + 1
                     /\ IF topic = EntregasReply
                        THEN /\ processed' = IF "send" \in F THEN processed
                                             ELSE publishOrderProcessed(reply.saga_id, reply.data)
                             /\ UNCHANGED cmds
                        ELSE /\ UNCHANGED processed
                             /\ cmds' = IF "send" \in F \/ "save" \in F THEN cmds
                                        ELSE sendCommand(cmds, NextCommand(topic).topic,
                                               [saga_id |-> reply.saga_id, order_id |-> orderID,
                                                command_type |-> NextCommand(topic).type,
                                                payload |-> reply.data])

\* processReply: the handler of a message of a reply topic
processReply(topic, reply, F, tie) ==
  LET states == getCurrentState(reply.saga_id)
  IN IF "query" \in F \/ states = {}
     THEN \* getCurrentState returned an error
          /\ last' = Op("processReply", topic, reply.saga_id, reply.success, "")
          /\ UNCHANGED <<saga_events, now, cmds, processed>>
     ELSE \E currentState \in states :
          /\ last' = Op("processReply", topic, reply.saga_id, reply.success, currentState)
          /\ IF ~reply.success
             THEN /\ startCompensation(reply.saga_id, currentState, reply.message, F, tie)
                  /\ UNCHANGED processed
             ELSE LET orderID == getOrderID(reply)
                      event   == [saga_id |-> reply.saga_id, order_id |-> orderID,
                                  state |-> NextState(topic), data |-> reply.data,
                                  error |-> ""]
                      saved   == IF "save" \in F
                                 THEN UNCHANGED <<saga_events, now>>
                                 ELSE /\ saga_events' = saveEvent(saga_events, event, now + 1)
                                      /\ now' = now + 1
                  IN IF topic = EntregasReply
                     THEN /\ processed' = IF "send" \in F THEN processed
                                          ELSE publishOrderProcessed(reply.saga_id, reply.data)
                          /\ UNCHANGED cmds
                          /\ saved
                     ELSE /\ UNCHANGED processed
                          /\ IF "send" \in F
                             THEN UNCHANGED <<saga_events, now, cmds>>
                             ELSE /\ cmds' = sendCommand(cmds, NextCommand(topic).topic,
                                               [saga_id |-> reply.saga_id, order_id |-> orderID,
                                                command_type |-> NextCommand(topic).type,
                                                payload |-> reply.data])
                                  /\ saved

\* a ConsumeClaim with a timer: when its topic has no message waiting it marks
\* the saga saved last FAILED
ConsumeClaim_Timeout(t) ==
  /\ t \in consumeMessages
  /\ Len(saga_events) < MaxEvents
  /\ IF HasMessage(t)
     THEN /\ IF t = TopicIngress
             THEN startNewSaga(Message(t), {})
             ELSE IF ~Unmarshal(Message(t))
             THEN /\ last' = Op("discard", t, "", FALSE, "")
                  /\ UNCHANGED <<saga_events, now, cmds, processed, started>>
             ELSE /\ processReply(t, Message(t), {}, FALSE)
                  /\ UNCHANGED started
          /\ pos' = [pos EXCEPT ![t] = @ + 1]
     ELSE /\ saga_events # <<>>
          /\ saga_events' = saveEvent(saga_events,
                               [saga_id |-> saga_events[Len(saga_events)].saga_id,
                                order_id |-> "", state |-> StateFailed,
                                data |-> EmptyPayload, error |-> "timeout"], now + 1)
          /\ now' = now + 1
          /\ last' = Op("timeout", t, saga_events[Len(saga_events)].saga_id, FALSE, "")
          /\ UNCHANGED <<cmds, processed, started, pos>>
  /\ UNCHANGED <<ingress, replies, orders, stock_reservations, payments, deliveries,
                 faults, redelivered, running, cause>>

\* ConsumeClaim of the orchestrator, one message: an ingress order starts a saga,
\* anything else is a reply, discarded when json.Unmarshal rejects it; the message
\* is marked whatever the handler returned
ConsumeClaim(t) ==
  /\ t \in consumeMessages
  /\ HasMessage(t)
  /\ Len(saga_events) < MaxEvents
  /\ IF t = TopicIngress
     THEN \E F \in (IF UnmarshalOrder(Message(t)) THEN FaultSets({"save", "send"}) ELSE {{}}) :
            /\ startNewSaga(Message(t), F)
            /\ faults' = faults + Cardinality(F)
     ELSE IF ~Unmarshal(Message(t))
     THEN /\ last' = Op("discard", t, "", FALSE, "")
          /\ UNCHANGED <<saga_events, now, cmds, processed, faults, started>>
     ELSE LET reply  == Message(t)
              points == IF reply.success THEN {"query", "send", "save"}
                        ELSE {"query", "save1", "save2", "send:CANCEL_PAYMENT",
                              "send:RELEASE_STOCK", "send:CANCEL_ORDER"}
          IN \E F \in FaultSets(points), tie \in BOOLEAN :
               /\ processReply(t, reply, F, tie)
               /\ faults' = faults + Cardinality(F)
               /\ UNCHANGED started
  /\ pos' = [pos EXCEPT ![t] = @ + 1]
  /\ UNCHANGED <<ingress, replies, orders, stock_reservations, payments, deliveries,
                 redelivered, running, cause>>

\* ------------------------------------------------------------- participants
\* the Reply processCommand starts from: it echoes command_id and saga_id
NewReply(topic, cmd, success, message, data) ==
  [topic |-> topic, command_id |-> cmd.command_id, saga_id |-> cmd.saga_id,
   success |-> success, message |-> message, data |-> data]

\* an UPDATE that matches no row
SetStatus_Skipped(table, sagaID, status) == table
\* an UPDATE that inserts a row when it matches none
SetStatus_Upsert(table, sagaID, status) ==
  IF \E i \in 1..Len(table) : table[i].saga_id = sagaID
  THEN [i \in 1..Len(table) |->
          IF table[i].saga_id = sagaID THEN [table[i] EXCEPT !.status = status] ELSE table[i]]
  ELSE Append(table, [id |-> generateID("record", Len(table)), saga_id |-> sagaID,
                      status |-> status])

\* UPDATE <table> SET status = <status> WHERE saga_id = $1
SetStatus(table, sagaID, status) ==
  [i \in 1..Len(table) |->
     IF table[i].saga_id = sagaID THEN [table[i] EXCEPT !.status = status] ELSE table[i]]

\* pedidos: validateOrder builds the order of a VALIDATE_ORDER command
validateOrder(cmd) ==
  [id |-> generateID("order", Len(orders)), saga_id |-> cmd.saga_id,
   customer_id  |-> getStringFromPayload(cmd.payload, "customer_id", "CUST-001"),
   product_id   |-> getStringFromPayload(cmd.payload, "product_id", "PROD-001"),
   quantity     |-> getStringFromPayload(cmd.payload, "quantity", "1"),
   total_amount |-> getStringFromPayload(cmd.payload, "total_amount", "100.00"),
   status |-> "VALIDATED"]

\* pedidos: processCommand. dbOk: the INSERT or UPDATE succeeded.
\* Yields the reply and the table orders after the command.
OrderService_processCommand(cmd, dbOk) ==
  CASE cmd.command_type = "VALIDATE_ORDER" ->
         LET order == validateOrder(cmd)
         IN IF dbOk
            THEN [reply |-> NewReply(PedidosReply, cmd, TRUE, "Pedido validado com sucesso",
                              [order_id |-> order.id, customer_id |-> order.customer_id,
                               product_id |-> order.product_id, quantity |-> order.quantity,
                               total_amount |-> order.total_amount]),
                  table |-> Append(orders, order)]
            ELSE [reply |-> NewReply(PedidosReply, cmd, FALSE, "Falha ao validar pedido",
                                     EmptyPayload),
                  table |-> orders]
    [] cmd.command_type = "CANCEL_ORDER" ->
         IF dbOk
         THEN [reply |-> NewReply(PedidosReply, cmd, TRUE, "Pedido cancelado com sucesso",
                                  EmptyPayload),
               table |-> SetStatus(orders, cmd.saga_id, "CANCELLED")]
         ELSE [reply |-> NewReply(PedidosReply, cmd, FALSE, "Erro ao cancelar pedido",
                                  EmptyPayload),
               table |-> orders]
    [] OTHER ->
         [reply |-> NewReply(PedidosReply, cmd, FALSE, "Comando desconhecido", EmptyPayload),
          table |-> orders]

\* estoque: processCommand. The reply's data starts as a copy of the payload.
\* inStock: rand.Intn(100) >= 10.
StockService_processCommand(cmd, dbOk, inStock) ==
  CASE cmd.command_type = "RESERVE_STOCK" ->
         LET reservation ==
               [id |-> generateID("reservation", Len(stock_reservations)),
                saga_id |-> cmd.saga_id,
                product_id |-> getStringFromPayload(cmd.payload, "product_id", "PROD-001"),
                quantity   |-> getStringFromPayload(cmd.payload, "quantity", "1"),
                status |-> "RESERVED"]
         IN IF inStock /\ dbOk
            THEN [reply |-> NewReply(EstoqueReply, cmd, TRUE, "Estoque reservado com sucesso",
                                     Put(cmd.payload, "reservation_id", reservation.id)),
                  table |-> Append(stock_reservations, reservation)]
            ELSE [reply |-> NewReply(EstoqueReply, cmd, FALSE, "Estoque insuficiente",
                                     cmd.payload),
                  table |-> stock_reservations]
    [] cmd.command_type = "RELEASE_STOCK" ->
         IF dbOk
         THEN [reply |-> NewReply(EstoqueReply, cmd, TRUE, "Estoque liberado com sucesso",
                                  cmd.payload),
               table |-> SetStatus(stock_reservations, cmd.saga_id, "RELEASED")]
         ELSE [reply |-> NewReply(EstoqueReply, cmd, FALSE, "Erro ao liberar estoque",
                                  cmd.payload),
               table |-> stock_reservations]
    [] OTHER ->
         [reply |-> NewReply(EstoqueReply, cmd, FALSE, "Comando desconhecido", cmd.payload),
          table |-> stock_reservations]

\* pagamentos: processCommand. approved: rand.Intn(100) >= 5.
PaymentService_processCommand(cmd, dbOk, approved) ==
  CASE cmd.command_type = "PROCESS_PAYMENT" ->
         LET payment ==
               [id |-> generateID("payment", Len(payments)), saga_id |-> cmd.saga_id,
                order_id |-> getStringFromPayload(cmd.payload, "order_id", ""),
                amount   |-> getStringFromPayload(cmd.payload, "total_amount", "0.0"),
                status |-> "APPROVED"]
         IN IF approved /\ dbOk
            THEN [reply |-> NewReply(PagamentosReply, cmd, TRUE,
                                     "Pagamento processado com sucesso",
                                     Put(Put(cmd.payload, "payment_id", payment.id),
                                         "transaction_id", "TXN")),
                  table |-> Append(payments, payment)]
            ELSE [reply |-> NewReply(PagamentosReply, cmd, FALSE,
                                     "Falha no processamento do pagamento", cmd.payload),
                  table |-> payments]
    [] cmd.command_type = "CANCEL_PAYMENT" ->
         IF dbOk
         THEN [reply |-> NewReply(PagamentosReply, cmd, TRUE, "Pagamento cancelado com sucesso",
                                  cmd.payload),
               table |-> SetStatus(payments, cmd.saga_id, "CANCELLED")]
         ELSE [reply |-> NewReply(PagamentosReply, cmd, FALSE, "Erro ao cancelar pagamento",
                                  cmd.payload),
               table |-> payments]
    [] OTHER ->
         [reply |-> NewReply(PagamentosReply, cmd, FALSE, "Comando desconhecido", cmd.payload),
          table |-> payments]

\* entregas: processCommand. scheduleDelivery fails only when the INSERT does.
DeliveryService_processCommand(cmd, dbOk) ==
  CASE cmd.command_type = "SCHEDULE_DELIVERY" ->
         LET delivery ==
               [id |-> generateID("delivery", Len(deliveries)), saga_id |-> cmd.saga_id,
                order_id |-> getStringFromPayload(cmd.payload, "order_id", ""),
                address  |-> getStringFromPayload(cmd.payload, "address", "Rua Exemplo, 123"),
                status |-> "SCHEDULED"]
         IN IF dbOk
            THEN [reply |-> NewReply(EntregasReply, cmd, TRUE, "Entrega agendada com sucesso",
                                     Put(Put(Put(cmd.payload, "delivery_id", delivery.id),
                                             "tracking_number", "TRK"),
                                         "scheduled_date", "D+2")),
                  table |-> Append(deliveries, delivery)]
            ELSE [reply |-> NewReply(EntregasReply, cmd, FALSE, "Falha ao agendar entrega",
                                     cmd.payload),
                  table |-> deliveries]
    [] cmd.command_type = "CANCEL_DELIVERY" ->
         IF dbOk
         THEN [reply |-> NewReply(EntregasReply, cmd, TRUE, "Entrega cancelada com sucesso",
                                  cmd.payload),
               table |-> SetStatus(deliveries, cmd.saga_id, "CANCELLED")]
         ELSE [reply |-> NewReply(EntregasReply, cmd, FALSE, "Erro ao cancelar entrega",
                                  cmd.payload),
               table |-> deliveries]
    [] OTHER ->
         [reply |-> NewReply(EntregasReply, cmd, FALSE, "Comando desconhecido", cmd.payload),
          table |-> deliveries]

\* sendReply: publish the reply on the service's reply topic; an error is logged
sendReply(reply, ok) == IF ok THEN Append(replies, ProducerMessage(reply)) ELSE replies

\* ConsumeClaim of a participant, one command: process it, send the reply, mark it.
\* A message json.Unmarshal rejects is marked and skipped.
\* random: the draw of rand.Intn in reserveStock and processPayment.
ConsumeCommand(t) ==
  /\ t \in CommandTopics
  /\ HasMessage(t)
  /\ LET cmd == Message(t)
     IN IF ~Unmarshal(cmd)
        THEN /\ last' = Op("discardCommand", t, "", FALSE, "")
             /\ UNCHANGED <<orders, stock_reservations, payments, deliveries, replies, faults>>
        ELSE
        \E F \in FaultSets({"db", "send"}), random \in BOOLEAN :
          LET dbOk == "db" \notin F
              res  == CASE t = PedidosCommands    -> OrderService_processCommand(cmd, dbOk)
                        [] t = EstoqueCommands    -> StockService_processCommand(cmd, dbOk, random)
                        [] t = PagamentosCommands -> PaymentService_processCommand(cmd, dbOk, random)
                        [] t = EntregasCommands   -> DeliveryService_processCommand(cmd, dbOk)
          IN /\ orders' = IF t = PedidosCommands THEN res.table ELSE orders
             /\ stock_reservations' = IF t = EstoqueCommands THEN res.table
                                      ELSE stock_reservations
             /\ payments' = IF t = PagamentosCommands THEN res.table ELSE payments
             /\ deliveries' = IF t = EntregasCommands THEN res.table ELSE deliveries
             /\ replies' = sendReply(res.reply, "send" \notin F)
             /\ faults' = faults + Cardinality(F)
             /\ last' = Op("processCommand", t, cmd.saga_id, res.reply.success,
                           cmd.command_type)
  /\ pos' = [pos EXCEPT ![t] = @ + 1]
  /\ UNCHANGED <<ingress, cmds, processed, saga_events, now, redelivered, started,
                 running, cause>>

\* -------------------------------------------------------------- environment
\* sendOrderToProcess of the simulator: an order on the ingress topic
sendOrderToProcess(orderData) ==
  /\ Len(ingress) < MaxSagas
  /\ ingress' = Append(ingress, orderData)
  /\ last' = Op("sendOrderToProcess", TopicIngress, "", TRUE, "")
  /\ UNCHANGED <<cmds, replies, processed, pos, saga_events, orders, stock_reservations,
                 payments, deliveries, now, faults, redelivered, started, running, cause>>

\* At-least-once delivery: MarkMessage only marks the offset, the commit is
\* asynchronous; a consumer that restarts before it is handed the message again.
Redeliver(t) ==
  /\ pos[t] > 0
  /\ Disturbances < MaxDisturbances
  /\ pos' = [pos EXCEPT ![t] = @ - 1]
  /\ redelivered' = redelivered + 1
  /\ last' = Op("Redeliver", t, "", TRUE, "")
  /\ UNCHANGED <<ingress, cmds, replies, processed, saga_events, orders,
                 stock_reservations, payments, deliveries, now, faults, started,
                 running, cause>>

\* a message arrives on the ingress topic that is no JSON object
ForeignOrder ==
  /\ Len(ingress) < MaxSagas
  /\ Disturbances < MaxDisturbances
  /\ ingress' = Append(ingress, MalformedOrder)
  /\ last' = Op("ForeignOrder", TopicIngress, "", TRUE, "")
  /\ UNCHANGED <<cmds, replies, processed, pos, saga_events, orders, stock_reservations,
                 payments, deliveries, now, faults, redelivered, started, running, cause>>

\* the messages of a reply topic that come from no participant
ForeignReplies(t) ==
  {[topic |-> t, command_id |-> "", saga_id |-> UnknownSaga, success |-> ok,
    message |-> "", data |-> EmptyPayload, key |-> "", json |-> TRUE] : ok \in BOOLEAN}
  \cup {[topic |-> t, command_id |-> "", saga_id |-> generateID("SAGA", 0), success |-> TRUE,
          message |-> "", data |-> EmptyPayload, key |-> "", json |-> FALSE]}

\* a message arrives on a reply topic that is no reply of a participant
ForeignReply(t) ==
  /\ Disturbances < MaxDisturbances
  /\ \E m \in ForeignReplies(t) : replies' = Append(replies, m)
  /\ last' = Op("ForeignReply", t, "", TRUE, "")
  /\ UNCHANGED <<ingress, cmds, processed, pos, saga_events, orders, stock_reservations,
                 payments, deliveries, now, faults, redelivered, started, running, cause>>

Next ==
  \/ \E orderData \in IngressPayloads : sendOrderToProcess(orderData)
  \/ ForeignOrder
  \/ \E t \in ReplyTopics : ForeignReply(t)
  \/ \E t \in consumeMessages : ConsumeClaim(t)
  \/ \E t \in CommandTopics : ConsumeCommand(t)
  \/ \E t \in Topics : Redeliver(t)

Spec == Init /\ [][Next]_vars

\* ------------------------------------------------- concurrent claim goroutines
\* The consumer group session runs ConsumeClaim in one goroutine per claimed
\* topic: the handlers of two topics interleave at their calls to the broker
\* and to the database. One step below is one such call of a handler.

\* messages the orchestrator has taken from its topics so far
Receipts ==
  pos[TopicIngress] + pos[PedidosReply] + pos[EstoqueReply] + pos[PagamentosReply]
  + pos[EntregasReply] + Cardinality({t \in consumeMessages : running[t].pc # "idle"})

\* ConsumeClaim takes an ingress order: startNewSaga, then MarkMessage
ConsumeClaimIngress ==
  /\ running[TopicIngress].pc = "idle"
  /\ HasMessage(TopicIngress)
  /\ Len(saga_events) < MaxConcurrentEvents
  /\ startNewSaga(Message(TopicIngress), {})
  /\ cause' = IF UnmarshalOrder(Message(TopicIngress)) THEN Append(cause, Receipts + 1)
              ELSE cause
  /\ pos' = [pos EXCEPT ![TopicIngress] = @ + 1]
  /\ UNCHANGED <<ingress, replies, orders, stock_reservations, payments, deliveries,
                 faults, redelivered, running>>

\* ConsumeClaim takes a reply: json.Unmarshal, then processReply up to the state
\* getCurrentState returns. A rejected message and the reply of a saga without
\* events are marked at once.
ConsumeClaimReply(t) ==
  /\ t \in ReplyTopics
  /\ running[t].pc = "idle"
  /\ HasMessage(t)
  /\ Len(saga_events) < MaxConcurrentEvents
  /\ LET reply  == Message(t)
         states == getCurrentState(reply.saga_id)
     IN IF ~Unmarshal(reply) \/ states = {}
        THEN /\ pos' = [pos EXCEPT ![t] = @ + 1]
             /\ UNCHANGED running
        ELSE /\ \E currentState \in states :
                  running' = [running EXCEPT ![t] =
                                [pc |-> IF reply.success THEN "publish" ELSE "compensating",
                                 saga |-> reply.saga_id, cur |-> currentState,
                                 ticket |-> Receipts + 1]]
             /\ UNCHANGED pos
  /\ UNCHANGED <<ingress, cmds, replies, processed, saga_events, orders, stock_reservations,
                 payments, deliveries, now, faults, redelivered, started, last, cause>>

\* processReply, success: the next command, or the outcome event after entregas-reply
processReplyPublish(t) ==
  /\ t \in ReplyTopics
  /\ running[t].pc = "publish"
  /\ LET reply == Message(t)
     IN IF t = EntregasReply
        THEN /\ processed' = publishOrderProcessed(reply.saga_id, reply.data)
             /\ UNCHANGED cmds
        ELSE /\ cmds' = sendCommand(cmds, NextCommand(t).topic,
                                    [saga_id |-> reply.saga_id, order_id |-> getOrderID(reply),
                                     command_type |-> NextCommand(t).type,
                                     payload |-> reply.data])
             /\ UNCHANGED processed
  /\ running' = [running EXCEPT ![t].pc = "save"]
  /\ UNCHANGED <<ingress, replies, pos, saga_events, orders, stock_reservations, payments,
                 deliveries, now, faults, redelivered, started, last, cause>>

\* processReply, success: saveEvent of the next state, then MarkMessage
processReplySave(t) ==
  /\ t \in ReplyTopics
  /\ running[t].pc = "save"
  /\ LET reply == Message(t)
     IN saga_events' = saveEvent(saga_events,
                                 [saga_id |-> reply.saga_id, order_id |-> getOrderID(reply),
                                  state |-> NextState(t), data |-> reply.data, error |-> ""],
                                 now + 1)
  /\ now' = now + 1
  /\ cause' = Append(cause, running[t].ticket)
  /\ pos' = [pos EXCEPT ![t] = @ + 1]
  /\ running' = [running EXCEPT ![t] = Idle]
  /\ UNCHANGED <<ingress, cmds, replies, processed, orders, stock_reservations, payments,
                 deliveries, faults, redelivered, started, last>>

\* startCompensation: saveEvent of COMPENSATING
startCompensationBegin(t) ==
  /\ t \in ReplyTopics
  /\ running[t].pc = "compensating"
  /\ saga_events' = saveEvent(saga_events,
                              [saga_id |-> running[t].saga, order_id |-> "",
                               state |-> StateCompensating, data |-> EmptyPayload,
                               error |-> Message(t).message],
                              now + 1)
  /\ now' = now + 1
  /\ cause' = Append(cause, running[t].ticket)
  /\ running' = [running EXCEPT ![t].pc = "compensations"]
  /\ UNCHANGED <<ingress, cmds, replies, processed, pos, orders, stock_reservations,
                 payments, deliveries, faults, redelivered, started, last>>

\* startCompensation: the compensations its switch reaches from currentState
startCompensationSend(t) ==
  /\ t \in ReplyTopics
  /\ running[t].pc = "compensations"
  /\ cmds' = SendCompensations(cmds, Compensations(running[t].cur), running[t].saga, {})
  /\ running' = [running EXCEPT ![t].pc = "failed"]
  /\ UNCHANGED <<ingress, replies, processed, pos, saga_events, orders, stock_reservations,
                 payments, deliveries, now, faults, redelivered, started, last, cause>>

\* startCompensation: saveEvent of FAILED, then MarkMessage
startCompensationEnd(t) ==
  /\ t \in ReplyTopics
  /\ running[t].pc = "failed"
  /\ saga_events' = saveEvent(saga_events,
                              [saga_id |-> running[t].saga, order_id |-> "",
                               state |-> StateFailed, data |-> EmptyPayload,
                               error |-> Message(t).message],
                              now + 1)
  /\ now' = now + 1
  /\ cause' = Append(cause, running[t].ticket)
  /\ pos' = [pos EXCEPT ![t] = @ + 1]
  /\ running' = [running EXCEPT ![t] = Idle]
  /\ UNCHANGED <<ingress, cmds, replies, processed, orders, stock_reservations, payments,
                 deliveries, faults, redelivered, started, last>>

ConcurrentNext ==
  \/ \E orderData \in IngressPayloads : sendOrderToProcess(orderData)
  \/ ConsumeClaimIngress
  \/ \E t \in ReplyTopics : ConsumeClaimReply(t)
  \/ \E t \in ReplyTopics : processReplyPublish(t)
  \/ \E t \in ReplyTopics : processReplySave(t)
  \/ \E t \in ReplyTopics : startCompensationBegin(t)
  \/ \E t \in ReplyTopics : startCompensationSend(t)
  \/ \E t \in ReplyTopics : startCompensationEnd(t)
  \/ \E t \in CommandTopics : ConsumeCommand(t)

ConcurrentSpec == Init /\ [][ConcurrentNext]_vars

\* ------------------------------------------------------- participants alone
\* A participant handles whatever command reaches its topic: each service taken
\* alone, sent forward and compensation commands of a few sagas in any order.

\* the command types processCommand of a topic's service knows
CommandTypes(t) ==
  CASE t = PedidosCommands    -> [forward |-> "VALIDATE_ORDER",    compensation |-> "CANCEL_ORDER"]
    [] t = EstoqueCommands    -> [forward |-> "RESERVE_STOCK",     compensation |-> "RELEASE_STOCK"]
    [] t = PagamentosCommands -> [forward |-> "PROCESS_PAYMENT",   compensation |-> "CANCEL_PAYMENT"]
    [] t = EntregasCommands   -> [forward |-> "SCHEDULE_DELIVERY", compensation |-> "CANCEL_DELIVERY"]

ParticipantSagas == {generateID("SAGA", n) : n \in 0..(MaxParticipantSagas - 1)}

\* a command type no processCommand has a case for
UnknownCommand == "UNKNOWN_COMMAND"
\* bytes on a command topic that are no JSON of a Command
MalformedCommand(t) ==
  [topic |-> t, command_id |-> "", saga_id |-> "", order_id |-> "", command_type |-> "",
   payload |-> EmptyPayload, key |-> "", json |-> FALSE]
CommandKinds == {"forward", "compensation", "unknown", "malformed"}

\* a message reaches a participant's topic, the earlier ones having been handled:
\* a forward command, a compensation, a command of an unknown type, or bytes
\* that are no command
CommandArrives(t) ==
  /\ Len(cmds) < MaxCommands
  /\ \A c \in CommandTopics : ~HasMessage(c)
  /\ \E sagaID \in ParticipantSagas, kind \in CommandKinds :
       /\ kind \in {"unknown", "malformed"} => sagaID = generateID("SAGA", 0)
       /\ cmds' = CASE kind = "forward" ->
                         sendCommand(cmds, t, [saga_id |-> sagaID,
                                               order_id |-> FullOrder["order_id"],
                                               command_type |-> CommandTypes(t).forward,
                                               payload |-> FullOrder])
                    [] kind = "compensation" ->
                         sendCompensation(cmds, t, sagaID, CommandTypes(t).compensation)
                    [] kind = "unknown" ->
                         sendCommand(cmds, t, [saga_id |-> sagaID,
                                               order_id |-> FullOrder["order_id"],
                                               command_type |-> UnknownCommand,
                                               payload |-> FullOrder])
                    [] kind = "malformed" -> Append(cmds, MalformedCommand(t))
       /\ last' = Op("sendCommand", t, sagaID, TRUE, "")
  /\ UNCHANGED <<ingress, replies, processed, pos, saga_events, orders, stock_reservations,
                 payments, deliveries, now, faults, redelivered, started, running, cause>>

ParticipantNext ==
  \/ \E t \in CommandTopics : CommandArrives(t)
  \/ \E t \in CommandTopics : ConsumeCommand(t)

ParticipantSpec == Init /\ [][ParticipantNext]_vars

\* ------------------------------------------------- several ingress partitions
\* The ingress topic with more than one partition: sarama runs one ConsumeClaim
\* goroutine per claimed partition, so two orders are handled by two goroutines
\* that read the clock independently. Nothing is redelivered.

\* the readings of time.Now().UnixNano() that became saga ids so far
Readings ==
  {n \in 0..MaxOrders :
     \E i \in 1..Len(saga_events) : saga_events[i].saga_id = generateID("SAGA", n)}
\* what time.Now().UnixNano() may return to the next caller: the instant another
\* goroutine has just read, or a later one
UnixNano ==
  IF Readings = {} THEN {0}
  ELSE LET latest == CHOOSE n \in Readings : \A k \in Readings : k <= n
       IN {latest, latest + 1}

\* the simulator publishes several orders, each with an order_id of its own
sendMultipleOrders ==
  /\ Len(ingress) < MaxOrders
  /\ ingress' = Append(ingress, [FullOrder EXCEPT !["order_id"] = generateID("ORD", Len(ingress))])
  /\ last' = Op("sendOrderToProcess", TopicIngress, "", TRUE, "")
  /\ UNCHANGED <<cmds, replies, processed, pos, saga_events, orders, stock_reservations,
                 payments, deliveries, now, faults, redelivered, started, running, cause>>

\* ConsumeClaim of an ingress partition takes an order: startNewSaga with the
\* clock reading generateID() is given, then MarkMessage
ConsumeClaimPartition ==
  /\ HasMessage(TopicIngress)
  /\ Len(saga_events) < MaxEvents
  /\ \E n \in UnixNano : startNewSagaAt(Message(TopicIngress), {}, n)
  /\ pos' = [pos EXCEPT ![TopicIngress] = @ + 1]
  /\ UNCHANGED <<ingress, replies, orders, stock_reservations, payments, deliveries,
                 faults, redelivered, running, cause>>

PartitionedNext ==
  \/ sendMultipleOrders
  \/ ConsumeClaimPartition
  \/ \E t \in ReplyTopics : ConsumeClaim(t)
  \/ \E t \in CommandTopics : ConsumeCommand(t)

PartitionedSpec == Init /\ [][PartitionedNext]_vars

\* ------------------------------------------------------------------ claims
Sagas == {saga_events[i].saga_id : i \in 1..Len(saga_events)}
StatesOf(events) == [i \in 1..Len(events) |-> events[i].state]
\* the states of a saga's events, in append order
States(sagaID) == StatesOf(EventsOf(sagaID))
IsPrefix(a, b) == Len(a) <= Len(b) /\ SubSeq(b, 1, Len(a)) = a
Range(f) == {f[i] : i \in DOMAIN f}

\* nothing is waiting on any topic
Quiescent == InFlight = {}
Undisturbed == Disturbances = 0

ForwardTypes == {"VALIDATE_ORDER", "RESERVE_STOCK", "PROCESS_PAYMENT", "SCHEDULE_DELIVERY"}
CompensationTypes == {"CANCEL_ORDER", "RELEASE_STOCK", "CANCEL_PAYMENT", "CANCEL_DELIVERY"}
CommandsOf(log, sagaID) == SelectSeq(log, LAMBDA c : c.saga_id = sagaID)
\* the compensation commands published for a saga, as <<topic, type>>, in publication order
Issued(log) == [i \in 1..Len(log) |-> <<log[i].topic, log[i].command_type>>]
CompensationsOf(sagaID) ==
  Issued(SelectSeq(cmds, LAMBDA c : c.saga_id = sagaID /\ c.command_type \in CompensationTypes))
\* the command a reply answers
CommandOf(reply) == CHOOSE c \in Range(cmds) : c.command_id = reply.command_id
\* the replies published so far to the commands of one type of a saga
RepliesTo(sagaID, commandType) ==
  {r \in Range(replies) : r.saga_id = sagaID /\ CommandOf(r).command_type = commandType}
Succeeded(sagaID, commandType) ==
  /\ RepliesTo(sagaID, commandType) # {}
  /\ \A r \in RepliesTo(sagaID, commandType) : r.success
Failed(sagaID, commandType) ==
  /\ RepliesTo(sagaID, commandType) # {}
  /\ \A r \in RepliesTo(sagaID, commandType) : ~r.success

\* what the handler that ran last appended and published
EventsBefore == SubSeq(saga_events, 1, last.ev0)
Appended == SubSeq(saga_events, last.ev0 + 1, Len(saga_events))
Emitted == SubSeq(cmds, last.cmd0 + 1, Len(cmds))
LogBefore(sagaID) == StatesOf(SelectSeq(EventsBefore, LAMBDA e : e.saga_id = sagaID))

\* C1 - Terminal uniqueness: in the log of every saga an event whose state is
\* COMPLETED or FAILED is the last one; nothing is appended after it.
C1_TerminalUniqueness ==
  \A s \in Sagas :
    \A i \in 1..Len(States(s)) :
      States(s)[i] \in {StateCompleted, StateFailed} => i = Len(States(s))

ForwardSequence == <<StatePending, StateOrderValidated, StateStockReserved,
                     StatePaymentProcessed, StateDeliveryScheduled>>
\* the logs monotonic progression allows: a prefix of the forward sequence, alone
\* or followed by COMPLETED, by COMPENSATING, or by COMPENSATING and FAILED
Monotonic(states) ==
  \E k \in 1..Len(ForwardSequence) :
    LET fwd == SubSeq(ForwardSequence, 1, k)
    IN states \in {fwd, fwd \o <<StateCompleted>>, fwd \o <<StateCompensating>>,
                   fwd \o <<StateCompensating, StateFailed>>}

\* C2 - Monotonic progression: the states of every saga's events, in append
\* order, are a prefix of the forward sequence followed by COMPLETED or by
\* COMPENSATING then FAILED; no state appears twice.
C2_MonotonicProgression == \A s \in Sagas : Monotonic(States(s))

\* the forward steps, in order, with the compensation of each
StepState == <<StateOrderValidated, StateStockReserved, StatePaymentProcessed>>
StepCompensation == << <<PedidosCommands, "CANCEL_ORDER">>, <<EstoqueCommands, "RELEASE_STOCK">>,
                       <<PagamentosCommands, "CANCEL_PAYMENT">> >>
\* the greatest k such that the log records the completion of step k
CompletedSteps(states) ==
  LET done == {k \in 1..Len(StepState) : StepState[k] \in Range(states)}
  IN IF done = {} THEN 0 ELSE CHOOSE k \in done : \A j \in done : j <= k
ReverseCompensations(k) == [i \in 1..k |-> StepCompensation[k + 1 - i]]

\* C3 - Compensation reverse order: when the first failure reply of a saga is
\* processed and no database or broker call has failed, the commands the handler
\* publishes are the compensations of the completed steps k, k-1, ..., 1, in
\* that order, each on its participant's command topic, and no others.
C3_CompensationReverseOrder ==
  (/\ last.op = "processReply"
   /\ ~last.success
   /\ faults = 0
   /\ Range(LogBefore(last.saga)) \cap {StateCompensating, StateFailed, StateCompleted} = {}
   /\ LogBefore(last.saga) # <<>>)
  => Issued(Emitted) = ReverseCompensations(CompletedSteps(LogBefore(last.saga)))

\* C4 - Reply idempotency: a success reply processed when the saga's log already
\* holds the state the reply leads to is discarded: the handler appends no event
\* and publishes no command.
C4_ReplyIdempotency ==
  (/\ last.op = "processReply"
   /\ last.success
   /\ NextState(last.topic) \in Range(LogBefore(last.saga)))
  => Appended = <<>> /\ Emitted = <<>>

\* C5 - Happy path: while every participant replies success, every message is
\* delivered once and no call fails, the saga's events are a prefix of PENDING,
\* ORDER_VALIDATED, STOCK_RESERVED, PAYMENT_PROCESSED, DELIVERY_SCHEDULED,
\* COMPLETED, and the whole of it once nothing is in flight.
C5_HappyPath ==
  \A s \in Sagas :
    (Undisturbed /\ \A r \in Range(replies) : r.success)
    => LET happy == ForwardSequence \o <<StateCompleted>>
       IN /\ IsPrefix(States(s), happy)
          /\ Quiescent => States(s) = happy

\* C6 - Stock failure: orders replies success and stock replies failure, every
\* message delivered once and no call failing. The saga's events are a prefix of
\* PENDING, ORDER_VALIDATED, COMPENSATING, FAILED (the whole of it once nothing is
\* in flight) and the only compensation published is CANCEL_ORDER.
C6_StockFailure ==
  \A s \in Sagas :
    (Undisturbed /\ Succeeded(s, "VALIDATE_ORDER") /\ Failed(s, "RESERVE_STOCK"))
    => LET expected == <<StatePending, StateOrderValidated, StateCompensating, StateFailed>>
       IN /\ IsPrefix(States(s), expected)
          /\ IsPrefix(CompensationsOf(s), << <<PedidosCommands, "CANCEL_ORDER">> >>)
          /\ Quiescent => States(s) = expected

\* C7 - Payment failure: orders and stock reply success and payment replies
\* failure, every message delivered once and no call failing. The saga's events
\* are a prefix of PENDING, ORDER_VALIDATED, STOCK_RESERVED, COMPENSATING, FAILED
\* (the whole of it once nothing is in flight) and the compensations published
\* are RELEASE_STOCK then CANCEL_ORDER and no others.
C7_PaymentFailure ==
  \A s \in Sagas :
    (/\ Undisturbed
     /\ Succeeded(s, "VALIDATE_ORDER") /\ Succeeded(s, "RESERVE_STOCK")
     /\ Failed(s, "PROCESS_PAYMENT"))
    => LET expected == <<StatePending, StateOrderValidated, StateStockReserved,
                         StateCompensating, StateFailed>>
       IN /\ IsPrefix(States(s), expected)
          /\ IsPrefix(CompensationsOf(s), << <<EstoqueCommands, "RELEASE_STOCK">>,
                                              <<PedidosCommands, "CANCEL_ORDER">> >>)
          /\ Quiescent => States(s) = expected

\* C8 - Documented compensation flow: the handler of the failure reply to
\* PROCESS_PAYMENT, in a saga whose events are PENDING, ORDER_VALIDATED,
\* STOCK_RESERVED, appends COMPENSATING, publishes CANCEL_PAYMENT, RELEASE_STOCK,
\* CANCEL_ORDER in that order, and appends FAILED.
C8_DocumentedCompensationFlow ==
  (/\ last.op = "processReply"
   /\ last.topic = PagamentosReply
   /\ ~last.success
   /\ Undisturbed
   /\ LogBefore(last.saga) = <<StatePending, StateOrderValidated, StateStockReserved>>)
  => /\ StatesOf(Appended) = <<StateCompensating, StateFailed>>
     /\ Issued(Emitted) = << <<PagamentosCommands, "CANCEL_PAYMENT">>,
                             <<EstoqueCommands, "RELEASE_STOCK">>,
                             <<PedidosCommands, "CANCEL_ORDER">> >>

\* a participant's records of a saga that are in a forward status
ForwardRecords(sagaID) ==
  {r \in Range(orders) \cup Range(stock_reservations) \cup Range(payments) \cup Range(deliveries) :
     r.saga_id = sagaID /\ r.status \in {"VALIDATED", "RESERVED", "APPROVED", "SCHEDULED"}}

\* C9 - Every failure is compensated: when the latest event of a saga is FAILED
\* and nothing is in flight, no participant holds a record of the saga in a
\* forward status.
C9_FailuresCompensated ==
  \A s \in Sagas :
    (Quiescent /\ States(s)[Len(States(s))] = StateFailed) => ForwardRecords(s) = {}

ContextKeys == {"order_id", "customer_id", "product_id", "quantity", "total_amount", "address"}
\* the ingress payload a saga was started from
SagaIndex(sagaID) == CHOOSE n \in 1..Len(started) : generateID("SAGA", n - 1) = sagaID
IngressOf(sagaID) == ingress[started[SagaIndex(sagaID)]]

\* C10 - Context preservation: every context key present in the ingress payload
\* of a saga is present in the data of the saga's COMPLETED event.
C10_ContextPreservation ==
  \A i \in 1..Len(saga_events) :
    saga_events[i].state = StateCompleted
    => (ContextKeys \cap DOMAIN IngressOf(saga_events[i].saga_id)) \subseteq DOMAIN saga_events[i].data

\* the message the handler that ran last consumed, and what it published on the
\* outcome topic
Handled == Log(last.topic)[last.pos0 + 1]
Published == SubSeq(processed, last.out0 + 1, Len(processed))
Acknowledged == pos[last.topic] = last.pos0 + 1

\* C11 - Crash recovery: the only message of pedidos-reply, the success reply to
\* VALIDATE_ORDER, is delivered a second time when the saga's events are PENDING,
\* ORDER_VALIDATED and no call fails. The handler appends no second
\* ORDER_VALIDATED event and publishes RESERVE_STOCK again.
C11_CrashRecovery ==
  (/\ last.op = "processReply"
   /\ last.topic = PedidosReply
   /\ last.success
   /\ Len(Log(PedidosReply)) = 1
   /\ redelivered = 1 /\ faults = 0
   /\ LogBefore(last.saga) = <<StatePending, StateOrderValidated>>)
  => /\ Appended = <<>>
     /\ Issued(Emitted) = << <<EstoqueCommands, "RESERVE_STOCK">> >>

\* processReply returned an error of saveEvent or of a publish: a call failed and
\* the handler appended fewer events than it appends when it returns nil
HandlerFailed ==
  /\ last.op = "processReply"
  /\ last.cur # ""
  /\ faults > last.faults0
  /\ Len(Appended) < (IF last.success THEN 1 ELSE 2)

\* C12 - Infrastructure failure is recovered by redelivery: when the handling of
\* a reply fails on an error of the event-log append or of the publish, the reply
\* is not acknowledged: the offset of its topic does not advance.
C12_FailureNotAcknowledged == HandlerFailed => pos[last.topic] = last.pos0

\* C13 - Malformed reply: a message of a reply topic that json.Unmarshal rejects
\* is acknowledged and discarded: no event is appended, no command and no
\* outcome is published.
C13_MalformedReplyDiscarded ==
  (last.op \in {"processReply", "discard"} /\ ~Handled.json)
  => /\ Appended = <<>>
     /\ Emitted = <<>>
     /\ Published = <<>>
     /\ Acknowledged

\* a malformed message was discarded while the saga it names has events
C13_Witness ==
  /\ last.op = "discard"
  /\ ~Handled.json
  /\ Handled.saga_id \in Sagas
  /\ Acknowledged

\* C14 - Unknown saga id: the reply, success or failure, of a saga that has no
\* events is acknowledged and dropped: no event is appended, no command and no
\* outcome is published.
C14_UnknownSagaDropped ==
  (last.op = "processReply" /\ LogBefore(last.saga) = <<>>)
  => /\ Appended = <<>>
     /\ Emitted = <<>>
     /\ Published = <<>>
     /\ Acknowledged

\* a failure reply of an unknown saga was dropped while another saga was running
C14_Witness ==
  /\ last.op = "processReply"
  /\ last.saga = UnknownSaga
  /\ ~last.success
  /\ saga_events # <<>>
  /\ Acknowledged

\* C15 - Late failure replies are no-ops: a failure reply processed when the
\* saga's current state is COMPENSATING, FAILED or COMPLETED appends no event and
\* publishes no command.
C15_LateFailureNoOp ==
  (/\ last.op = "processReply"
   /\ ~last.success
   /\ last.cur \in {StateCompensating, StateFailed, StateCompleted})
  => Appended = <<>> /\ Emitted = <<>>

\* C16 - Partition key: every command, every reply of a participant and every
\* outcome event is published with the saga id as its key.
C16_PartitionKey ==
  \A m \in Range(cmds) \cup {r \in Range(replies) : ~IsForeign(r)} \cup Range(processed) :
    m.key = m.saga_id

\* C19 - Terminal outcome matches the event log: an outcome event with status
\* COMPLETED has been published for a saga exactly when the saga's event log
\* holds a COMPLETED event.
C19_OutcomeMatchesLog ==
  \A s \in Sagas :
    (\E m \in Range(processed) : m.saga_id = s /\ m.status = "COMPLETED")
    <=> StateCompleted \in Range(States(s))

C17_SingleWriterPerSaga ==
  \A t1, t2 \in consumeMessages :
    (t1 # t2 /\ running[t1].pc # "idle" /\ running[t2].pc # "idle")
    => running[t1].saga # running[t2].saga

\* C18 - Event order follows reply order: of two events of one saga, the one
\* saved first was saved by the handler of the message received first, so the
\* events of one message are never separated by an event of another.
C18_EventOrderFollowsReplyOrder ==
  \A i, j \in 1..Len(saga_events) :
    (i < j /\ saga_events[i].saga_id = saga_events[j].saga_id) => cause[i] <= cause[j]

\* the table, the reply topic and the compensated status of the service that
\* consumes a command topic
TableOf(t) ==
  CASE t = PedidosCommands    -> orders
    [] t = EstoqueCommands    -> stock_reservations
    [] t = PagamentosCommands -> payments
    [] t = EntregasCommands   -> deliveries
ReplyTopicOf(t) ==
  CASE t = PedidosCommands    -> PedidosReply
    [] t = EstoqueCommands    -> EstoqueReply
    [] t = PagamentosCommands -> PagamentosReply
    [] t = EntregasCommands   -> EntregasReply
CompensatedStatus(t) == IF t = EstoqueCommands THEN "RELEASED" ELSE "CANCELLED"
RecordsOf(table, sagaID) == SelectSeq(table, LAMBDA r : r.saga_id = sagaID)
RecordsOfOthers(table, sagaID) == SelectSeq(table, LAMBDA r : r.saga_id # sagaID)
Compensated(table, sagaID, status) ==
  \A i \in 1..Len(table) : table[i].saga_id = sagaID => table[i].status = status
\* this step is the service of topic t handling a compensation command with no
\* error of the database or of the broker
Compensates(t) ==
  /\ HasMessage(t)
  /\ pos'[t] = pos[t] + 1
  /\ Message(t).command_type = CommandTypes(t).compensation
  /\ faults' = faults
\* this step publishes exactly one reply, a success echoing the command of topic t
RepliesSuccess(t) ==
  /\ Len(replies') = Len(replies) + 1
  /\ SubSeq(replies', 1, Len(replies)) = replies
  /\ LET r == replies'[Len(replies')]
     IN /\ r.topic = ReplyTopicOf(t) /\ r.success
        /\ r.command_id = Message(t).command_id /\ r.saga_id = Message(t).saga_id

\* C21 - Participant compensation is idempotent: a compensation command handled
\* without error leaves every record of its saga in the cancelled/released
\* status and the records of other sagas as they were, and replies success; a
\* compensation applied to records that are already all in that status changes
\* nothing, so applying it twice leaves what applying it once leaves.
C21_CompensationIdempotent ==
  [][\A t \in CommandTopics :
       Compensates(t)
       => LET sagaID == Message(t).saga_id
          IN /\ Compensated(TableOf(t)', sagaID, CompensatedStatus(t))
             /\ Len(TableOf(t)') = Len(TableOf(t))
             /\ RecordsOfOthers(TableOf(t)', sagaID) = RecordsOfOthers(TableOf(t), sagaID)
             /\ Compensated(TableOf(t), sagaID, CompensatedStatus(t))
                => TableOf(t)' = TableOf(t)
             /\ RepliesSuccess(t)]_vars

\* the same compensation was handled twice for a saga that has a record: two
\* success replies to commands of that type, the second by the last handler
C21_Witness ==
  /\ last.op = "processCommand"
  /\ last.cur \in CompensationTypes
  /\ last.success
  /\ faults = 0
  /\ Cardinality(RepliesTo(last.saga, last.cur)) = 2
  /\ \A r \in RepliesTo(last.saga, last.cur) : r.success
  /\ RecordsOf(TableOf(last.topic), last.saga) # <<>>
  /\ Compensated(TableOf(last.topic), last.saga, CompensatedStatus(last.topic))

\* C23 - Compensation of a no-op is a no-op: a compensation command for a saga
\* of which the participant holds no record, handled without error, replies
\* success and leaves the participant's table as it was: no record is created
\* and none is changed.
C23_CompensationOfNoOp ==
  [][\A t \in CommandTopics :
       (Compensates(t) /\ RecordsOf(TableOf(t), Message(t).saga_id) = <<>>)
       => /\ TableOf(t)' = TableOf(t)
          /\ RepliesSuccess(t)]_vars

\* a compensation was handled for a saga that has no record in a table that
\* holds the record of another saga
C23_Witness ==
  /\ last.op = "processCommand"
  /\ last.cur \in CompensationTypes
  /\ last.success
  /\ faults = 0
  /\ RecordsOf(TableOf(last.topic), last.saga) = <<>>
  /\ TableOf(last.topic) # <<>>

ForwardStatus(t) ==
  CASE t = PedidosCommands    -> "VALIDATED"
    [] t = EstoqueCommands    -> "RESERVED"
    [] t = PagamentosCommands -> "APPROVED"
    [] t = EntregasCommands   -> "SCHEDULED"
\* the records of a saga a participant holds in its forward status
ForwardRecordsIn(t, sagaID) ==
  SelectSeq(TableOf(t), LAMBDA r : r.saga_id = sagaID /\ r.status = ForwardStatus(t))

\* C22 - Forward commands are idempotent per (saga_id, command_type): a second
\* VALIDATE_ORDER, RESERVE_STOCK, PROCESS_PAYMENT or SCHEDULE_DELIVERY of a saga
\* does not double the side effect: every participant holds at most one forward
\* record per saga.
C22_ForwardIdempotent ==
  \A t \in CommandTopics, sagaID \in ParticipantSagas :
    Len(ForwardRecordsIn(t, sagaID)) <= 1

\* C24 - Event log is append-only: no step updates or deletes a saga event; the
\* event log after a step has the log before it as a prefix, and so has the log
\* of every saga.
C24_AppendOnly ==
  [][/\ IsPrefix(saga_events, saga_events')
     /\ \A s \in Sagas : IsPrefix(EventsOf(s), EventsOf(s)')]_vars

\* a handler appended two events to a log that held events of the saga already
C24_Witness ==
  /\ last.op = "processReply"
  /\ Len(Appended) = 2
  /\ Len(LogBefore(last.saga)) >= 2
  /\ IsPrefix(EventsBefore, saga_events)

TerminalStates == {StateCompleted, StateFailed}
\* this step consumes a message of a topic the orchestrator subscribes to
Consumes == \E t \in consumeMessages : HasMessage(t) /\ pos'[t] = pos[t] + 1

\* C25 - No per-saga timeout: the orchestrator appends an event, emits a command
\* or publishes an outcome only in a step that consumes an ingress or reply
\* message; while no such message is consumed the saga stays in its state,
\* however long the reply it awaits fails to arrive.
C25_NoTimeout ==
  [][(saga_events' # saga_events \/ cmds' # cmds \/ processed' # processed)
     => Consumes]_vars

\* a saga awaits a reply that will not arrive: its command was handled, the
\* reply was lost when sendReply failed, nothing is in flight and the saga is
\* in a non-terminal state
C25_Witness ==
  /\ Quiescent
  /\ last.op = "processCommand"
  /\ faults = 1
  /\ Len(replies) < Len(cmds)
  /\ last.saga \in Sagas
  /\ States(last.saga)[Len(States(last.saga))] \notin TerminalStates

\* C30 - Failed command publish leaves the saga unchanged: when the handler of
\* a success reply on pedidos-reply, estoque-reply or pagamentos-reply read the
\* current state and the publish of the next forward command returned an error
\* (an error occurred and no command was published), it appended no event: the
\* saga's log is the one before the reply.
C30_FailedPublishNoEvent ==
  (/\ last.op = "processReply"
   /\ last.success
   /\ last.topic \in {PedidosReply, EstoqueReply, PagamentosReply}
   /\ last.cur # ""
   /\ faults > last.faults0
   /\ Emitted = <<>>)
  => /\ Appended = <<>>
     /\ States(last.saga) = LogBefore(last.saga)

\* the publish of PROCESS_PAYMENT failed while the saga was in ORDER_VALIDATED
C30_Witness ==
  /\ last.op = "processReply"
  /\ last.success
  /\ last.topic = EstoqueReply
  /\ last.cur = StateOrderValidated
  /\ faults > last.faults0
  /\ Emitted = <<>>
  /\ States(last.saga) = <<StatePending, StateOrderValidated>>

\* C26 - FAILED marks that compensations were dispatched: when the handler of a
\* saga's first failure reply, delivered once, appends FAILED, it has published
\* the compensation of every forward step the saga's log records as completed.
C26_FailedAfterCompensations ==
  (/\ last.op = "processReply"
   /\ ~last.success
   /\ redelivered = 0
   /\ Range(LogBefore(last.saga)) \cap ({StateCompensating} \cup TerminalStates) = {}
   /\ StateFailed \in Range(StatesOf(Appended)))
  => \A k \in 1..Len(StepState) :
       StepState[k] \in Range(LogBefore(last.saga))
       => StepCompensation[k] \in Range(Issued(Emitted))

\* C27 - No forward command after failure: the handler of a reply of a saga
\* whose log holds a FAILED event publishes no VALIDATE_ORDER, RESERVE_STOCK,
\* PROCESS_PAYMENT or SCHEDULE_DELIVERY.
C27_NoForwardAfterFailed ==
  (last.op = "processReply" /\ StateFailed \in Range(LogBefore(last.saga)))
  => \A i \in 1..Len(Emitted) : Emitted[i].command_type \notin ForwardTypes

\* the state the transition table lists for a success reply on a topic
ExpectedState(topic) ==
  CASE topic = PedidosReply    -> StatePending
    [] topic = EstoqueReply    -> StateOrderValidated
    [] topic = PagamentosReply -> StateStockReserved
    [] topic = EntregasReply   -> StatePaymentProcessed

\* C28 - Forward transitions are guarded by the current state: with every
\* message delivered once and no infrastructure error, the handler of a success
\* reply that read a current state other than the one listed for the reply's
\* topic appends no event, publishes no command and no outcome.
C28_GuardedTransitions ==
  (/\ last.op = "processReply"
   /\ last.success
   /\ Undisturbed
   /\ last.cur # ""
   /\ last.cur # ExpectedState(last.topic))
  => Appended = <<>> /\ Emitted = <<>> /\ Published = <<>>

\* the latest event of a saga is COMPLETED or FAILED
Terminated(sagaID) == States(sagaID)[Len(States(sagaID))] \in TerminalStates

\* C29 - Sagas stay terminated: with every message delivered once and no
\* infrastructure error, a step taken when the latest event of a saga is
\* COMPLETED or FAILED appends no event and publishes no command for that saga.
C29_StayTerminated ==
  [][\A s \in Sagas :
       (Undisturbed /\ Undisturbed' /\ Terminated(s))
       => /\ EventsOf(s)' = EventsOf(s)
          /\ CommandsOf(cmds', s) = CommandsOf(cmds, s)]_vars

\* the forward commands processReply publishes, each with the payload it builds
NextCommandTypes == {"RESERVE_STOCK", "PROCESS_PAYMENT", "SCHEDULE_DELIVERY"}

\* C31 - Context accumulation: the payload of every RESERVE_STOCK,
\* PROCESS_PAYMENT and SCHEDULE_DELIVERY command is the saga context merged so
\* far: it holds every key of the ingress payload the saga was started from.
C31_ContextAccumulation ==
  \A i \in 1..Len(cmds) :
    cmds[i].command_type \in NextCommandTypes
    => DOMAIN IngressOf(cmds[i].saga_id) \subseteq DOMAIN cmds[i].payload

\* C32 - Order id is stable: every event and every command of a saga carries
\* the order id of the saga's first event, the PENDING event.
C32_OrderIdStable ==
  \A s \in Sagas :
    LET orderID == EventsOf(s)[1].order_id
    IN /\ \A i \in 1..Len(EventsOf(s)) : EventsOf(s)[i].order_id = orderID
       /\ \A i \in 1..Len(CommandsOf(cmds, s)) : CommandsOf(cmds, s)[i].order_id = orderID

\* C33 - At most one terminal outcome: the outcome topic holds at most one
\* processed event per saga, whatever is delivered or delivered again.
C33_SingleOutcome ==
  \A s \in Sagas : Len(SelectSeq(processed, LAMBDA m : m.saga_id = s)) <= 1

\* C35 - No command without a persisted PENDING event: every VALIDATE_ORDER
\* command belongs to a saga whose log holds a PENDING event, and the ingress
\* handler that was given bytes that are no JSON object, or whose append of the
\* PENDING event returned an error, published no command.
C35_NoCommandWithoutPending ==
  /\ \A i \in 1..Len(cmds) :
       cmds[i].command_type = "VALIDATE_ORDER"
       => StatePending \in Range(States(cmds[i].saga_id))
  /\ (last.op = "rejectOrder" \/ (last.op = "startNewSaga" /\ Appended = <<>>))
     => Emitted = <<>> /\ Appended = <<>>

\* the append of the PENDING event returned an error
C35_Witness ==
  /\ last.op = "startNewSaga"
  /\ faults > last.faults0
  /\ Appended = <<>>
  /\ Emitted = <<>>
  /\ pos[TopicIngress] = last.pos0 + 1

\* bytes that are no JSON object were handled on the ingress topic
RejectedOrder ==
  /\ last.op = "rejectOrder"
  /\ ~UnmarshalOrder(Handled)
  /\ saga_events = <<>> /\ cmds = <<>>

\* C36 - Authoritative current state: for every saga getCurrentState returns
\* the state of the event appended last, and nothing else.
C36_AuthoritativeCurrentState ==
  \A s \in Sagas : getCurrentState(s) = {States(s)[Len(States(s))]}

\* this step is the service of topic t consuming a well-formed command
ConsumesCommand(t) == HasMessage(t) /\ pos'[t] = pos[t] + 1 /\ Unmarshal(Message(t))
\* this step publishes exactly one reply, on the reply topic of the service of
\* topic t, that echoes the command's command_id and saga_id
RepliesEcho(t) ==
  /\ Len(replies') = Len(replies) + 1
  /\ SubSeq(replies', 1, Len(replies)) = replies
  /\ LET r == replies'[Len(replies')]
     IN /\ r.topic = ReplyTopicOf(t)
        /\ r.command_id = Message(t).command_id /\ r.saga_id = Message(t).saga_id
        /\ Message(t).command_type \notin {CommandTypes(t).forward, CommandTypes(t).compensation}
           => ~r.success /\ TableOf(t)' = TableOf(t)

\* C37 - Participant reply contract: for every well-formed command a participant
\* consumes, of a known or an unknown type, it publishes exactly one reply on its
\* reply topic with the command's command_id and saga_id; for an unknown type
\* the reply has success = false and no record changes.
C37_ReplyContract ==
  [][\A t \in CommandTopics : ConsumesCommand(t) => RepliesEcho(t)]_vars

\* the contract of C37 for the commands whose reply the broker accepted
ReplyContractWithoutErrors ==
  [][\A t \in CommandTopics : (ConsumesCommand(t) /\ faults' = faults) => RepliesEcho(t)]_vars

\* a command of an unknown type was answered
UnknownCommandAnswered ==
  /\ last.op = "processCommand" /\ last.cur = UnknownCommand /\ ~last.success
  /\ faults = 0
  /\ \E i \in 1..Len(replies) : replies[i].command_id = Handled.command_id

\* C38 - Participants acknowledge only after successful processing: a step in
\* which a participant marks a command as consumed publishes the reply to it;
\* when the publish fails the offset of the command topic does not advance.
C38_AckAfterReply ==
  [][\A t \in CommandTopics : ConsumesCommand(t) => Len(replies') > Len(replies)]_vars

\* C39 - Saga ids are unique: no two PENDING events, each written for its own
\* ingress message, carry the same saga id, so no saga's log holds the events
\* of two orders.
C39_UniqueSagaIds ==
  \A i, j \in 1..Len(saga_events) :
    (i # j /\ saga_events[i].state = StatePending /\ saga_events[j].state = StatePending)
    => saga_events[i].saga_id # saga_events[j].saga_id

\* this step is the orchestrator handling a reply that json.Unmarshal accepts
HandlesReply(t) == HasMessage(t) /\ pos'[t] = pos[t] + 1 /\ Unmarshal(Message(t))

\* C34 - Saga isolation: the handling of a reply that carries saga id S appends
\* only events of S and publishes only commands and outcomes of S; the events
\* and the commands of every other saga are what they were.
C34_SagaIsolation ==
  [][\A t \in ReplyTopics :
       HandlesReply(t)
       => LET S == Message(t).saga_id
          IN /\ IsPrefix(saga_events, saga_events') /\ IsPrefix(cmds, cmds')
             /\ IsPrefix(processed, processed')
             /\ \A i \in (Len(saga_events) + 1)..Len(saga_events') :
                  saga_events'[i].saga_id = S
             /\ \A i \in (Len(cmds) + 1)..Len(cmds') : cmds'[i].saga_id = S
             /\ \A i \in (Len(processed) + 1)..Len(processed') : processed'[i].saga_id = S
             /\ \A s \in Sagas \ {S} :
                  /\ EventsOf(s)' = EventsOf(s)
                  /\ CommandsOf(cmds', s) = CommandsOf(cmds, s)]_vars

\* the failure reply of one saga was handled, events appended and a compensation
\* published, while another saga has events and a command in flight
C34_Witness ==
  /\ last.op = "processReply"
  /\ ~last.success
  /\ Len(Appended) = 2
  /\ Emitted # <<>>
  /\ \E s \in Sagas \ {last.saga} :
       /\ Len(States(s)) >= 2
       /\ \E t \in CommandTopics : HasMessage(t) /\ Message(t).saga_id = s

====
